---- MODULE Spec2Model ----
(***************************************************************************)
(* Model of pyrogram/handlers/error_handler.py: the ErrorHandler class.    *)
(*                                                                         *)
(* State: the ErrorHandler instances constructed so far, the two patch     *)
(* points the constructor writes (asyncio.BaseEventLoop.run_in_executor,   *)
(* the per-loop instance attribute run_in_executor, sys.excepthook), the   *)
(* class attribute original_except_hook, and an observation record of the  *)
(* most recent call of a blocking dispatch or of the exception hook.       *)
(***************************************************************************)
EXTENDS Naturals, Sequences, FiniteSets

VARIABLES
    handlers,             \* the ErrorHandler instances, in construction order
    classRunInExecutor,   \* asyncio.BaseEventLoop.run_in_executor: 0 = original, h = handlers[h].run_in_executor
    loopRunInExecutor,    \* per loop: the instance attribute loop.run_in_executor (0 = not set)
    excepthook,           \* sys.excepthook
    original_except_hook, \* ErrorHandler.original_except_hook
    last                  \* the most recent operation and what it did

vars == <<handlers, classRunInExecutor, loopRunInExecutor, excepthook,
          original_except_hook, last>>

-----------------------------------------------------------------------------
(* Bounds *)

MaxHandlers == 2

MaxModLen == 2

-----------------------------------------------------------------------------
(* The collaborators: clients, their event loops, callbacks, work items *)

Clients == {"c1", "c2"}

Loops == {"l1", "l2"}

\* client.loop: each client runs its own event loop
LoopOf(client) == IF client = "c1" THEN "l1" ELSE "l2"

\* the user callbacks: one that returns, one that itself raises
Callbacks == {"cb_returns", "cb_raises"}

CallbackRaises(callback) == callback = "cb_raises"

Works == {"w1"}

\* the value the unit of work produces when it succeeds
ResultOf(work) == <<"result", work>>

None == <<"None">>

-----------------------------------------------------------------------------
(* Exceptions: a class (kind), the __module__ of that class, an identity *)

\* Module names are sequences of text pieces; the piece "pyrogram.errors" is the
\* literal text the hook searches for, "x" is any other identifier text.
Tokens == {"pyrogram.errors", ".", "x"}

Needle == <<"pyrogram.errors">>

WellFormed(m) ==
    /\ Len(m) >= 1
    /\ m[1] # "."
    /\ m[Len(m)] # "."
    /\ \A i \in 1..(Len(m) - 1) : ~(m[i] = "." /\ m[i + 1] = ".")

Modules ==
    {m \in UNION {[1..n -> Tokens] : n \in 1..MaxModLen} : WellFormed(m)}

\* Python's `needle in hay` on strings: a contiguous occurrence
Contains(needle, hay) ==
    \E i \in 1..(Len(hay) + 1) :
        /\ i + Len(needle) - 1 <= Len(hay)
        /\ SubSeq(hay, i, i + Len(needle) - 1) = needle

\* the classes an exception class inherits from (itself included)
Mro(kind) ==
    CASE kind = "FloodWait"      -> {"FloodWait", "RPCError", "Exception", "BaseException"}
      [] kind = "BadRequest"     -> {"BadRequest", "RPCError", "Exception", "BaseException"}
      [] kind = "RuntimeError"   -> {"RuntimeError", "Exception", "BaseException"}
      [] kind = "UserError"      -> {"UserError", "Exception", "BaseException"}
      [] kind = "CancelledError" -> {"CancelledError", "BaseException"}
      [] OTHER                   -> {}

IsInstance(exc, cls) == cls \in Mro(exc.kind)

\* The exceptions the underlying primitive can fail with / that can escape to the
\* process-wide hook. Library and builtin classes live in their own modules; a
\* class defined by the application may live in any module.
Exceptions ==
    {[kind |-> "FloodWait", module |-> <<"pyrogram.errors", ".", "x">>, id |-> "e1"],
     [kind |-> "BadRequest", module |-> <<"pyrogram.errors", ".", "x">>, id |-> "e1"],
     [kind |-> "RuntimeError", module |-> <<"x">>, id |-> "e1"],
     [kind |-> "CancelledError", module |-> <<"x", ".", "x">>, id |-> "e1"]}
    \cup {[kind |-> "UserError", module |-> m, id |-> "e1"] : m \in Modules}

\* what a failing callback raises: another exception object
CallbackExc == [kind |-> "RuntimeError", module |-> <<"x">>, id |-> "e2"]

NoExc == [kind |-> "none", module |-> <<>>, id |-> "none"]

\* (type, value, traceback) of an exception
ExcInfo(exc) == <<exc.kind, exc, <<"traceback", exc.id>>>>

\* sys.exc_info() inside an `except` block: the exception being handled there
SysExcInfo(handled) == ExcInfo(handled)

-----------------------------------------------------------------------------
(* ErrorHandler.__init__ *)

ExceptionsToCatch(catch_all) ==
    IF catch_all THEN <<"RPCError", "BaseException">> ELSE <<"RPCError">>

\* functools.partial(self.except_hook, catch_all)
PartialExceptHook(h, catch_all) == [self |-> h, catch_all |-> catch_all]

\* variant: an installed redirection is kept, a later construction does not replace it
NewExceptHook_KeepInstalled(cur, h, catch_all) ==
    IF cur.self # 0 THEN cur ELSE PartialExceptHook(h, catch_all)

\* the value __init__ stores in sys.excepthook, given the value it finds there
NewExceptHook(cur, h, catch_all) == PartialExceptHook(h, catch_all)

\* the interpreter's own sys.excepthook, captured when the class is defined
BuiltinExceptHook == [self |-> 0, catch_all |-> FALSE]

\* the observation record when the most recent operation was no call
NoCall(op) ==
    [op |-> op, loop |-> "none", args |-> "none", handler |-> 0,
     executedOn |-> "none", executedArgs |-> "none", exc |-> NoExc,
     cbRaised |-> FALSE, callbackCalls |-> <<>>, originalHookCalls |-> <<>>,
     outcome |-> [type |-> "none", result |-> None, exc |-> NoExc]]

Init ==
    /\ handlers = <<>>
    /\ classRunInExecutor = 0
    /\ loopRunInExecutor = [l \in Loops |-> 0]
    /\ excepthook = BuiltinExceptHook
    /\ original_except_hook = BuiltinExceptHook
    /\ last = NoCall("none")

Construct(client, callback, catch_all) ==
    /\ Len(handlers) < MaxHandlers
    /\ LET h == Len(handlers) + 1 IN
        /\ handlers' = Append(handlers,
                [client |-> client, callback |-> callback,
                 exceptions_to_catch |-> ExceptionsToCatch(catch_all)])
        /\ IF catch_all
             THEN /\ classRunInExecutor' = h
                  /\ UNCHANGED loopRunInExecutor
             ELSE /\ loopRunInExecutor' =
                        [loopRunInExecutor EXCEPT ![LoopOf(client)] = h]
                  /\ UNCHANGED classRunInExecutor
        /\ excepthook' = NewExceptHook(excepthook, h, catch_all)
    /\ last' = NoCall("construct")
    /\ UNCHANGED original_except_hook

-----------------------------------------------------------------------------
(* ErrorHandler.run_in_executor: the wrapped blocking dispatch *)

\* attribute lookup loop.run_in_executor: the instance attribute set on the loop
\* shadows the attribute of the class asyncio.BaseEventLoop
Resolve(loop) ==
    IF loopRunInExecutor[loop] # 0 THEN loopRunInExecutor[loop]
    ELSE classRunInExecutor

\* the loop the saved original primitive is invoked on: the unpatched primitive
\* runs on the loop it was called on, the wrapper passes self.client.loop
ExecutorLoop(h, loop) ==
    IF h = 0 THEN loop ELSE LoopOf(handlers[h].client)

\* `except self.exceptions_to_catch`: isinstance against a tuple of classes
Matches(exc, classes) ==
    \E i \in 1..Len(classes) : IsInstance(exc, classes[i])

Returned(value) == [type |-> "return", result |-> value, exc |-> NoExc]

Raised(exc) == [type |-> "raise", result |-> None, exc |-> exc]

\* self.callback(self.client, exc)
CallbackCall(h, exc) ==
    [handler |-> h, callback |-> handlers[h].callback,
     client |-> handlers[h].client, exc |-> exc]

\* variant: the FloodWait clause raises a fresh exception instead of a bare `raise`
RunInExecutor_RaisesNewFloodWait(h, value, fail) ==
    LET cbRaises == CallbackRaises(handlers[h].callback) IN
    IF fail = NoExc
      THEN [callbackCalls |-> <<>>, cbRaised |-> FALSE, outcome |-> Returned(value)]
    ELSE IF IsInstance(fail, "FloodWait")
      THEN [callbackCalls |-> <<>>, cbRaised |-> FALSE,
            outcome |-> Raised([fail EXCEPT !.id = "e2"])]
    ELSE IF Matches(fail, handlers[h].exceptions_to_catch)
      THEN [callbackCalls |-> <<CallbackCall(h, fail)>>,
            cbRaised |-> cbRaises,
            outcome |-> IF cbRaises THEN Raised(CallbackExc) ELSE Returned(None)]
    ELSE [callbackCalls |-> <<>>, cbRaised |-> FALSE, outcome |-> Raised(fail)]

\* variant: the `except errors.FloodWait: raise` clause is missing
RunInExecutor_NoFloodWaitClause(h, value, fail) ==
    LET cbRaises == CallbackRaises(handlers[h].callback) IN
    IF fail = NoExc
      THEN [callbackCalls |-> <<>>, cbRaised |-> FALSE, outcome |-> Returned(value)]
    ELSE IF Matches(fail, handlers[h].exceptions_to_catch)
      THEN [callbackCalls |-> <<CallbackCall(h, fail)>>,
            cbRaised |-> cbRaises,
            outcome |-> IF cbRaises THEN Raised(CallbackExc) ELSE Returned(None)]
    ELSE [callbackCalls |-> <<>>, cbRaised |-> FALSE, outcome |-> Raised(fail)]

\* The try/except/else of the wrapper handlers[h], once the awaited original
\* primitive has ended with `fail` (NoExc: it succeeded with `value`).
RunInExecutor(h, value, fail) ==
    LET cbRaises == CallbackRaises(handlers[h].callback) IN
    IF fail = NoExc
      THEN [callbackCalls |-> <<>>, cbRaised |-> FALSE, outcome |-> Returned(value)]
    ELSE IF IsInstance(fail, "FloodWait")
      THEN [callbackCalls |-> <<>>, cbRaised |-> FALSE, outcome |-> Raised(fail)]
    ELSE IF Matches(fail, handlers[h].exceptions_to_catch)
      THEN [callbackCalls |-> <<CallbackCall(h, fail)>>,
            cbRaised |-> cbRaises,
            outcome |-> IF cbRaises THEN Raised(CallbackExc) ELSE Returned(None)]
    ELSE [callbackCalls |-> <<>>, cbRaised |-> FALSE, outcome |-> Raised(fail)]

\* the unpatched primitive: its result or failure reaches the caller as is
OriginalRunInExecutor(value, fail) ==
    [callbackCalls |-> <<>>, cbRaised |-> FALSE,
     outcome |-> IF fail = NoExc THEN Returned(value) ELSE Raised(fail)]

\* A caller awaits loop.run_in_executor(work); the unit of work succeeds
\* (fail = NoExc) or fails with `fail`.
Dispatch(loop, work, fail) ==
    LET h == Resolve(loop)
        r == IF h = 0 THEN OriginalRunInExecutor(ResultOf(work), fail)
             ELSE RunInExecutor(h, ResultOf(work), fail)
    IN  /\ last' = [op |-> "dispatch", loop |-> loop, args |-> work, handler |-> h,
                    executedOn |-> ExecutorLoop(h, loop), executedArgs |-> work,
                    exc |-> fail, cbRaised |-> r.cbRaised,
                    callbackCalls |-> r.callbackCalls,
                    originalHookCalls |-> <<>>,
                    outcome |-> r.outcome]
        /\ UNCHANGED <<handlers, classRunInExecutor, loopRunInExecutor,
                       excepthook, original_except_hook>>

-----------------------------------------------------------------------------
(* ErrorHandler.except_hook: the process-wide fallback exception hook *)

\* self.original_except_hook(*args)
OriginalHookCall(args) == [hook |-> original_except_hook, args |-> args]

\* 'pyrogram.errors' in getattr(args[1], '__module__', '')
FromPyrogramErrors(exc) == Contains(Needle, exc.module)

\* whether except_hook(catch_all, *args) calls the callback
HookCallsCallback(catch_all, exc) == catch_all \/ FromPyrogramErrors(exc)

\* except_hook of handlers[hook.self], bound to hook.catch_all, called with args
ExceptHook(hook, args) ==
    LET cbRaises == CallbackRaises(handlers[hook.self].callback) IN
    IF HookCallsCallback(hook.catch_all, args[2])
      THEN [callbackCalls |-> <<CallbackCall(hook.self, args[2])>>,
            cbRaised |-> cbRaises,
            originalHookCalls |->
                IF cbRaises THEN <<OriginalHookCall(SysExcInfo(CallbackExc))>>
                ELSE <<>>]
      ELSE [callbackCalls |-> <<>>, cbRaised |-> FALSE,
            originalHookCalls |-> <<OriginalHookCall(args)>>]

\* the interpreter's own hook, when no ErrorHandler was constructed
BuiltinHook(args) ==
    [callbackCalls |-> <<>>, cbRaised |-> FALSE,
     originalHookCalls |-> <<[hook |-> BuiltinExceptHook, args |-> args]>>]

\* An exception escapes all handling: the interpreter calls sys.excepthook(*args)
Hook(exc) ==
    LET args == ExcInfo(exc)
        r == IF excepthook.self = 0 THEN BuiltinHook(args)
             ELSE ExceptHook(excepthook, args)
    IN  /\ last' = [op |-> "hook", loop |-> "none", args |-> "none",
                    handler |-> excepthook.self,
                    executedOn |-> "none", executedArgs |-> "none",
                    exc |-> exc, cbRaised |-> r.cbRaised,
                    callbackCalls |-> r.callbackCalls,
                    originalHookCalls |-> r.originalHookCalls,
                    outcome |-> Returned(None)]
        /\ UNCHANGED <<handlers, classRunInExecutor, loopRunInExecutor,
                       excepthook, original_except_hook>>

-----------------------------------------------------------------------------

Next ==
    \/ \E client \in Clients, callback \in Callbacks, catch_all \in BOOLEAN :
            Construct(client, callback, catch_all)
    \/ \E loop \in Loops, work \in Works, fail \in Exceptions \cup {NoExc} :
            Dispatch(loop, work, fail)
    \/ \E exc \in Exceptions : Hook(exc)

Spec == Init /\ [][Next]_vars

-----------------------------------------------------------------------------
(* Properties *)

\* whether handlers[h] was constructed with catch_all: its matcher tuple then
\* holds BaseException
CatchAll(h) ==
    \E i \in 1..Len(handlers[h].exceptions_to_catch) :
        handlers[h].exceptions_to_catch[i] = "BaseException"

WrappedDispatch == last.op = "dispatch" /\ last.handler # 0

HookOfHandler == last.op = "hook" /\ last.handler # 0

\* the module is pyrogram.errors or a submodule of it
InLibraryNamespace(m) ==
    /\ Len(m) >= 1
    /\ m[1] = "pyrogram.errors"
    /\ (Len(m) = 1 \/ m[2] = ".")

\* C1: when the callback raises while the hook handles an escaped exception E,
\* the saved original hook is called once, with the exception info of E (not
\* of the callback's exception), and the hook itself returns.
C1_CallbackFailureReportsOriginal ==
    (HookOfHandler /\ last.cbRaised) =>
        /\ last.outcome.type = "return"
        /\ last.originalHookCalls =
              <<[hook |-> BuiltinExceptHook, args |-> ExcInfo(last.exc)]>>

\* C2: a FloodWait failure of the underlying primitive leaves the wrapped
\* dispatch as the same exception, and the callback is not called, whatever the
\* matcher set of the wrapper.
C2_FloodWaitReraised ==
    (WrappedDispatch /\ IsInstance(last.exc, "FloodWait")) =>
        /\ last.outcome = Raised(last.exc)
        /\ last.callbackCalls = <<>>

C2_Witness ==
    /\ WrappedDispatch
    /\ IsInstance(last.exc, "FloodWait")
    /\ CatchAll(last.handler)
    /\ Matches(last.exc, handlers[last.handler].exceptions_to_catch)
    /\ last.outcome.type = "raise"

\* C3: for a failure that is not a FloodWait, the wrapped dispatch calls the
\* callback once with (client, exception) and returns None exactly when the
\* failure matches the wrapper's matcher set (RPCError always, anything else
\* only under catch_all); an unmatched failure propagates unchanged and the
\* callback is not called.
C3_InterceptedIffMatched ==
    (WrappedDispatch /\ last.exc # NoExc /\ ~IsInstance(last.exc, "FloodWait")) =>
        LET matched == IsInstance(last.exc, "RPCError") \/ CatchAll(last.handler)
            intercepted ==
                /\ last.callbackCalls = <<CallbackCall(last.handler, last.exc)>>
                /\ last.outcome = Returned(None)
        IN  /\ matched <=> Matches(last.exc, handlers[last.handler].exceptions_to_catch)
            /\ intercepted <=> matched
            /\ ~matched => /\ last.callbackCalls = <<>>
                           /\ last.outcome = Raised(last.exc)

\* C4: the hook bound to catch_all = TRUE calls the callback with (client,
\* exception) for every exception; bound to catch_all = FALSE it calls the
\* callback exactly when the exception's class is defined in the library's
\* pyrogram.errors namespace, and hands every other exception to the saved
\* original hook with the arguments it received, the callback not called.
C4_HookDecision ==
    HookOfHandler =>
        LET called == last.callbackCalls = <<CallbackCall(last.handler, last.exc)>>
            library == InLibraryNamespace(last.exc.module)
        IN  IF excepthook.catch_all THEN called
            ELSE /\ called <=> library
                 /\ ~library =>
                        /\ last.callbackCalls = <<>>
                        /\ last.originalHookCalls =
                              <<[hook |-> BuiltinExceptHook,
                                 args |-> ExcInfo(last.exc)]>>

\* C5 (as stated): on no path, dispatch or hook, is the callback called with a
\* FloodWait exception.
C5_FloodWaitNeverIntercepted ==
    \A i \in 1..Len(last.callbackCalls) :
        ~IsInstance(last.callbackCalls[i].exc, "FloodWait")

\* C5 (amended): the wrapped dispatch never calls the callback with a FloodWait
\* exception, whatever the matcher set; the exclusion does not extend to the
\* fallback exception hook.
C5_DispatchNeverInterceptsFloodWait ==
    last.op = "dispatch" =>
        \A i \in 1..Len(last.callbackCalls) :
            ~IsInstance(last.callbackCalls[i].exc, "FloodWait")

C5_Witness ==
    /\ WrappedDispatch
    /\ IsInstance(last.exc, "FloodWait")
    /\ ~CatchAll(last.handler)
    /\ Matches(last.exc, handlers[last.handler].exceptions_to_catch)
    /\ last.callbackCalls = <<>>

\* C6: a cancellation of the awaited original primitive propagates out of the
\* wrapped dispatch unchanged and the callback is not called, with and without
\* catch_all.
C6_CancellationPropagates ==
    (WrappedDispatch /\ last.exc.kind = "CancelledError") =>
        /\ last.outcome = Raised(last.exc)
        /\ last.callbackCalls = <<>>

\* C7: a call of the wrapped dispatch ends in exactly one of: the underlying
\* result returned unchanged (callback not called), the callback called once
\* and None returned, or the underlying exception re-raised (callback not
\* called); a call that called the callback never raises to its caller.
C7_ExactlyOneOutcome ==
    WrappedDispatch =>
        LET returned ==
                /\ last.exc = NoExc
                /\ last.outcome = Returned(ResultOf(last.args))
                /\ last.callbackCalls = <<>>
            intercepted ==
                /\ last.exc # NoExc
                /\ Len(last.callbackCalls) = 1
                /\ last.outcome = Returned(None)
            reraised ==
                /\ last.exc # NoExc
                /\ last.callbackCalls = <<>>
                /\ last.outcome = Raised(last.exc)
        IN  /\ returned \/ intercepted \/ reraised
            /\ last.exc = NoExc => returned
            /\ last.callbackCalls # <<>> => last.outcome.type # "raise"

\* C8: once any ErrorHandler was constructed, sys.excepthook is the hook of the
\* most recently constructed one, bound to its catch_all flag; an escaping
\* exception calls at most one callback, that of the most recent handler with
\* its client; and the saved original hook is still the interpreter's own.
C8_SingleLatestHook ==
    handlers # <<>> =>
        LET n == Len(handlers) IN
        /\ excepthook.self = n
        /\ excepthook.catch_all = CatchAll(n)
        /\ original_except_hook = BuiltinExceptHook
        /\ last.op = "hook" =>
              /\ last.handler = n
              /\ Len(last.callbackCalls) <= 1
              /\ \A i \in 1..Len(last.callbackCalls) :
                    /\ last.callbackCalls[i].handler = n
                    /\ last.callbackCalls[i].callback = handlers[n].callback
                    /\ last.callbackCalls[i].client = handlers[n].client
              /\ \A j \in 1..Len(last.originalHookCalls) :
                    last.originalHookCalls[j].hook = BuiltinExceptHook

C8_Witness ==
    /\ Len(handlers) = 2
    /\ handlers[1].callback # handlers[2].callback
    /\ handlers[1].client # handlers[2].client
    /\ CatchAll(1) # CatchAll(2)
    /\ last.op = "hook"
    /\ Len(last.callbackCalls) = 1

\* whether the installation made by handlers[i] covers the loop
AppliesTo(i, loop) == CatchAll(i) \/ LoopOf(handlers[i].client) = loop

\* the most recently constructed handler whose installation covers the loop
\* (0: none does)
LatestApplicable(loop) ==
    LET S == {i \in 1..Len(handlers) : AppliesTo(i, loop)}
    IN  IF S = {} THEN 0 ELSE CHOOSE i \in S : \A j \in S : j <= i

\* C9: a dispatch on a loop is handled by the wrapper of the most recently
\* constructed ErrorHandler whose installation covers that loop (catch_all:
\* every loop; otherwise: its client's loop).
C9_LastWriterWins ==
    last.op = "dispatch" => last.handler = LatestApplicable(last.loop)

\* C10: under a catch_all wrapper, a dispatch issued on a loop runs the saved
\* original primitive on that same loop with the work the caller passed.
C10_SameScheduler ==
    (WrappedDispatch /\ CatchAll(last.handler)) =>
        /\ last.executedOn = last.loop
        /\ last.executedArgs = last.args

====
